---------------------------- MODULE Spec2Model ----------------------------
(***************************************************************************)
(* Model of the airfare tracker (src/main.py): one pipeline                *)
(* fetch -> record -> notify, run once in debug mode or weekly from a      *)
(* polling loop.  The remote spreadsheet is a sequence of rows, an offer   *)
(* is a Python dict (a function whose DOMAIN is the set of keys present),  *)
(* and an uncaught exception ends the process.                             *)
(***************************************************************************)
EXTENDS Integers, Sequences, FiniteSets, TLC

VARIABLES
    debug,        \* DEBUG flag of __main__
    pc,           \* process: "main", "idle", "running", "exit", "crashed"
    due,          \* the weekly job's next_run has been reached
    active,       \* pipeline invocations currently executing
    invocations,  \* pipeline invocations started so far
    step,         \* position inside fetch_and_notify
    fetchFailed,  \* this run's HTTP call raised RequestException
    flights,      \* this run's fetched offer list
    idx,          \* notifier loop position (1-based)
    sheet,        \* rows of the spreadsheet
    sheet0,       \* the spreadsheet when the process started
    sheetBefore,  \* the spreadsheet when this run started
    saveCalls,    \* save_to_google_sheets calls of this run
    formatCalls,  \* format_google_sheet calls of this run
    appended,     \* offer indices whose row this run appended, in order
    attempts      \* send_email_notification calls of this run, in order

vars == <<debug, pc, due, active, invocations, step, fetchFailed, flights,
          idx, sheet, sheet0, sheetBefore, saveCalls, formatCalls, appended,
          attempts>>

(***************************************************************************)
(* Bounds of the model.                                                    *)
(***************************************************************************)
MaxOffers == 3   \* longest fetched batch
MaxRuns == 2     \* scheduled invocations explored
MaxRows == 3     \* a scheduled run is explored only on a sheet this short

(***************************************************************************)
(* Program constants.                                                      *)
(***************************************************************************)
PRICE_THRESHOLD == 400

preferred_destinations == {"Palermo", "Catania", "Rome", "Milan"}

Header ==
    <<"Price (USD)", "Duration", "Origin", "Destination", "Departure Time",
      "Booking Link">>

(***************************************************************************)
(* Offers as the API may return them.                                      *)
(***************************************************************************)
Prices == {350, 400}
Cities == {"Rome", "Paris"}

RouteTo(c) ==
    <<[cityFrom |-> "JFK", cityTo |-> c,
       utc_departure |-> "2025-06-01T10:30:00.000Z",
       local_departure |-> "2025-06-01T12:30:00.000"]>>

Offer(p, c) ==
    [price |-> p, duration |-> [departure |-> 30600], route |-> RouteTo(c),
     deep_link |-> "https://kiwi.com/b"]

NoRoute == [price |-> 350, duration |-> [departure |-> 30600],
            deep_link |-> "https://kiwi.com/b"]
NoPrice == [duration |-> [departure |-> 30600], route |-> RouteTo("Rome"),
            deep_link |-> "https://kiwi.com/b"]
NoDuration == [price |-> 350, route |-> RouteTo("Rome"),
               deep_link |-> "https://kiwi.com/b"]
NoDeepLink == [price |-> 350, duration |-> [departure |-> 30600],
               route |-> RouteTo("Rome")]

WellFormedOffers == {Offer(p, c) : p \in Prices, c \in Cities}
Offers == WellFormedOffers \cup {NoRoute, NoPrice, NoDuration, NoDeepLink}

Batches == UNION {[1..n -> Offers] : n \in 0..MaxOffers}

Has(flight, key) == key \in DOMAIN flight

(***************************************************************************)
(* Row field derivation (save_to_google_sheets, lines 74-96).              *)
(***************************************************************************)
FormatDuration(duration_seconds) ==
    ToString(duration_seconds \div 3600) \o "h " \o
    ToString((duration_seconds % 3600) \div 60) \o "m"

\* strptime("%Y-%m-%dT%H:%M:%S.%fZ") then strftime("%Y-%m-%d %H:%M")
FormatDeparture(departure_time_utc) ==
    CASE departure_time_utc = "2025-06-01T10:30:00.000Z" -> "2025-06-01 10:30"

BookingLink(deep_link) == "=HYPERLINK(\"" \o deep_link \o "\", \"Book Now\")"

PriceCell(flight) ==
    IF Has(flight, "price") THEN "$" \o ToString(flight.price) ELSE "N/A"

\* the keys whose absence raises KeyError inside the try block
RowRaises(flight) == ~Has(flight, "duration") \/ ~Has(flight, "deep_link")

Row(flight) ==
    <<PriceCell(flight), FormatDuration(flight.duration.departure),
      flight.route[1].cityFrom, flight.route[1].cityTo,
      FormatDeparture(flight.route[1].utc_departure),
      BookingLink(flight.deep_link)>>


(***************************************************************************)
(* Spreadsheet service operations used by the Recorder.                    *)
(***************************************************************************)
\* variant: the header is written over row 1 instead of inserted above it
InsertRowOverwrite(s, row, index) ==
    SubSeq(s, 1, index - 1) \o <<row>> \o SubSeq(s, index + 1, Len(s))

InsertRow(s, row, index) ==
    SubSeq(s, 1, index - 1) \o <<row>> \o SubSeq(s, index, Len(s))

AppendRow(s, row) == Append(s, row)

(***************************************************************************)
(* save_to_google_sheets.                                                  *)
(***************************************************************************)
\* the filter comprehension reads flight["route"] outside any try block
FilterRaises(fs) == \E i \in 1..Len(fs) : ~Has(fs[i], "route")

\* variant: the filter also drops offers that are not deals
FilteredDealsOnly(fs) ==
    SelectSeq([i \in 1..Len(fs) |-> i],
              LAMBDA i : /\ fs[i].route[1].cityTo \in preferred_destinations
                         /\ Has(fs[i], "price")
                         /\ fs[i].price < PRICE_THRESHOLD)

\* positions of the offers the filter keeps, in fetch order
FilteredFlights(fs) ==
    SelectSeq([i \in 1..Len(fs) |-> i],
              LAMBDA i : fs[i].route[1].cityTo \in preferred_destinations)

EnsureHeader(s) ==
    IF s = <<>> \/ s[1] # Header THEN InsertRow(s, Header, 1) ELSE s

RECURSIVE AppendLoop(_, _, _, _)
AppendLoop(fs, filtered, s, done) ==
    IF filtered = <<>>
    THEN [sheet |-> s, appended |-> done]
    ELSE LET i == Head(filtered)
         IN  IF RowRaises(fs[i])
             THEN AppendLoop(fs, Tail(filtered), s, done)
             ELSE AppendLoop(fs, Tail(filtered), AppendRow(s, Row(fs[i])),
                             Append(done, i))

SaveToGoogleSheets(fs, s) ==
    AppendLoop(fs, FilteredFlights(fs), EnsureHeader(s), <<>>)

(***************************************************************************)
(* The Notifier's loop body (fetch_and_notify, lines 160-171).             *)
(***************************************************************************)
\* variant: the comparison includes the threshold itself
ShouldNotifyAtOrBelow(flight) == flight.price <= PRICE_THRESHOLD

ShouldNotify(flight) == flight.price < PRICE_THRESHOLD

\* KeyError raised by the loop body: nothing in fetch_and_notify catches it
NotifyRaises(flight) ==
    \/ ~Has(flight, "price")
    \/ /\ ShouldNotify(flight)
       /\ ~Has(flight, "route") \/ ~Has(flight, "deep_link")

Email(flight) ==
    [subject |-> [price |-> flight.price,
                  cityFrom |-> flight.route[1].cityFrom,
                  cityTo |-> flight.route[1].cityTo],
     body |-> [price |-> flight.price,
               cityFrom |-> flight.route[1].cityFrom,
               cityTo |-> flight.route[1].cityTo,
               departure |-> flight.route[1].local_departure],
     booking_url |-> flight.deep_link]

\* one send_email_notification call; sent is FALSE when the SMTP block raised
SendEmailNotification(i, mail, sent) ==
    Append(attempts, [offer |-> i, mail |-> mail, sent |-> sent])

(***************************************************************************)
(* fetch_flight_data: RequestException is caught and [] returned.          *)
(***************************************************************************)
\* variant: the except branch hands back what it was given
FetchKeepsData(raised, data) == data

FetchFlightData(raised, data) == IF raised THEN <<>> ELSE data

\* variant: the pipeline does not test the list
AlwaysHasFlights(fs) == TRUE

\* "if flights:" in fetch_and_notify
HasFlights(fs) == fs # <<>>

(***************************************************************************)
(* Initial state.                                                          *)
(***************************************************************************)
OldRow == Row(Offer(420, "Milan"))

InitialSheets ==
    {<<>>, <<Header>>, <<Header, OldRow>>, <<OldRow>>, <<OldRow, Header>>}

Init ==
    /\ debug \in BOOLEAN
    /\ pc = "main"
    /\ due = FALSE
    /\ active = 0
    /\ invocations = 0
    /\ step = "none"
    /\ fetchFailed = FALSE
    /\ flights = <<>>
    /\ idx = 1
    /\ sheet \in InitialSheets
    /\ sheet0 = sheet
    /\ sheetBefore = sheet
    /\ saveCalls = 0
    /\ formatCalls = 0
    /\ appended = <<>>
    /\ attempts = <<>>

(***************************************************************************)
(* fetch_and_notify, one action per statement that touches the outside.    *)
(***************************************************************************)
runVars == <<step, fetchFailed, flights, idx, sheet, sheetBefore, saveCalls,
             formatCalls, appended, attempts>>
procVars == <<debug, sheet0, pc, due, active, invocations>>

\* entry into fetch_and_notify
StartRun ==
    /\ pc' = "running"
    /\ active' = active + 1
    /\ invocations' = invocations + 1
    /\ step' = "setup"
    /\ fetchFailed' = FALSE
    /\ flights' = <<>>
    /\ idx' = 1
    /\ sheetBefore' = sheet
    /\ saveCalls' = 0
    /\ formatCalls' = 0
    /\ appended' = <<>>
    /\ attempts' = <<>>
    /\ UNCHANGED <<debug, sheet0, sheet>>

\* an exception leaves fetch_and_notify and, uncaught, ends the process
Raise ==
    /\ pc' = "crashed"
    /\ step' = "crashed"
    /\ active' = active - 1
    /\ UNCHANGED <<debug, sheet0, due, invocations>>

\* setup_google_sheets succeeds
SetupGoogleSheets ==
    /\ pc = "running" /\ step = "setup"
    /\ step' = "fetch"
    /\ UNCHANGED <<procVars, fetchFailed, flights, idx, sheet, sheetBefore,
                   saveCalls, formatCalls, appended, attempts>>

\* setup_google_sheets raises (credentials, spreadsheet not found)
SetupGoogleSheetsFails ==
    /\ pc = "running" /\ step = "setup"
    /\ Raise
    /\ UNCHANGED <<fetchFailed, flights, idx, sheet, sheetBefore, saveCalls,
                   formatCalls, appended, attempts>>

\* flights = fetch_flight_data(), then the "if flights:" branch
Fetch ==
    /\ pc = "running" /\ step = "fetch"
    /\ \E raised \in BOOLEAN, data \in Batches :
          /\ fetchFailed' = raised
          /\ flights' = FetchFlightData(raised, data)
          /\ step' = IF HasFlights(flights') THEN "save" ELSE "return"
    /\ UNCHANGED <<procVars, idx, sheet, sheetBefore, saveCalls, formatCalls,
                   appended, attempts>>

\* save_to_google_sheets(flights, sheet)
Save ==
    /\ pc = "running" /\ step = "save"
    /\ saveCalls' = saveCalls + 1
    /\ IF FilterRaises(flights)
       THEN /\ Raise
            /\ UNCHANGED <<sheet, appended>>
       ELSE /\ LET r == SaveToGoogleSheets(flights, sheet)
               IN  /\ sheet' = r.sheet
                   /\ appended' = r.appended
            /\ step' = "format"
            /\ UNCHANGED procVars
    /\ UNCHANGED <<fetchFailed, flights, idx, sheetBefore, formatCalls,
                   attempts>>

\* format_google_sheet(sheet): cell styles only, no row changes
Format ==
    /\ pc = "running" /\ step = "format"
    /\ formatCalls' = formatCalls + 1
    /\ step' = "notify"
    /\ idx' = 1
    /\ UNCHANGED <<procVars, fetchFailed, flights, sheet, sheetBefore,
                   saveCalls, appended, attempts>>

\* one iteration of "for flight in flights"
Notify ==
    /\ pc = "running" /\ step = "notify"
    /\ idx <= Len(flights)
    /\ LET flight == flights[idx]
       IN  IF NotifyRaises(flight)
           THEN /\ Raise
                /\ UNCHANGED <<idx, attempts>>
           ELSE /\ IF ShouldNotify(flight)
                   THEN \E sent \in BOOLEAN :
                           attempts' =
                               SendEmailNotification(idx, Email(flight), sent)
                   ELSE UNCHANGED attempts
                /\ idx' = idx + 1
                /\ step' = IF idx' > Len(flights) THEN "return" ELSE "notify"
                /\ UNCHANGED procVars
    /\ UNCHANGED <<fetchFailed, flights, sheet, sheetBefore, saveCalls,
                   formatCalls, appended>>

\* fetch_and_notify returns to its caller
Return ==
    /\ pc = "running" /\ step = "return"
    /\ step' = "done"
    /\ active' = active - 1
    /\ pc' = IF debug THEN "exit" ELSE "idle"
    /\ due' = IF debug THEN due ELSE FALSE
    /\ UNCHANGED <<debug, sheet0, invocations, fetchFailed, flights, idx, sheet,
                   sheetBefore, saveCalls, formatCalls, appended, attempts>>

(***************************************************************************)
(* __main__ and the weekly schedule.                                       *)
(***************************************************************************)
\* "if DEBUG: fetch_and_notify()"
DebugRun ==
    /\ pc = "main" /\ debug
    /\ StartRun
    /\ UNCHANGED due

\* "else: while True:"
EnterLoop ==
    /\ pc = "main" /\ ~debug
    /\ pc' = "idle"
    /\ UNCHANGED <<debug, sheet0, due, active, invocations, runVars>>

\* Monday 08:00 comes round while the loop sleeps
WeekPasses ==
    /\ pc = "idle" /\ ~due
    /\ due' = TRUE
    /\ UNCHANGED <<debug, sheet0, pc, active, invocations, runVars>>

\* variant: the job is started from a second thread while the first still runs
RunPendingReentrant ==
    /\ pc \in {"idle", "running"} /\ due
    /\ invocations < MaxRuns
    /\ Len(sheet) <= MaxRows
    /\ StartRun
    /\ UNCHANGED due

\* schedule.run_pending() finds the job due and calls it
RunPending ==
    /\ pc = "idle" /\ due
    /\ invocations < MaxRuns
    /\ Len(sheet) <= MaxRows
    /\ StartRun
    /\ UNCHANGED due

Next ==
    \/ DebugRun
    \/ EnterLoop
    \/ WeekPasses
    \/ RunPending
    \/ SetupGoogleSheets
    \/ SetupGoogleSheetsFails
    \/ Fetch
    \/ Save
    \/ Format
    \/ Notify
    \/ Return

Spec == Init /\ [][Next]_vars

(***************************************************************************)
(* Vocabulary of the properties.                                           *)
(***************************************************************************)
RunOver == step \in {"done", "crashed"}

RecorderReturned ==
    saveCalls > 0 /\ step \in {"format", "notify", "return", "done"}

FetchReturned == step \in {"save", "format", "notify", "return", "done"}

WellFormed(flight) == flight \in WellFormedOffers

IsDeal(flight) == Has(flight, "price") /\ flight.price < 400

Attempted(i) == \E k \in 1..Len(attempts) : attempts[k].offer = i

SendsFor(i) == Cardinality({k \in 1..Len(attempts) : attempts[k].offer = i})

HeaderCount(s) == Cardinality({k \in 1..Len(s) : s[k] = Header})

Mentions(mail, flight) ==
    /\ mail.subject.price = flight.price
    /\ mail.subject.cityFrom = flight.route[1].cityFrom
    /\ mail.subject.cityTo = flight.route[1].cityTo
    /\ mail.body.price = flight.price
    /\ mail.body.cityFrom = flight.route[1].cityFrom
    /\ mail.body.cityTo = flight.route[1].cityTo

\* the row the spreadsheet is expected to show for a well-formed offer
ExpectedRow(flight) ==
    <<"$" \o ToString(flight.price), "8h 30m", "JFK", flight.route[1].cityTo,
      "2025-06-01 10:30", "=HYPERLINK(\"https://kiwi.com/b\", \"Book Now\")">>

\* the sheet a run starts from, with the header put in place if it was not
WithHeader(s) == IF s = <<>> \/ s[1] # Header THEN <<Header>> \o s ELSE s

\* s continues base: every row of base is still there, in place
Extends(s, base) ==
    /\ Len(s) >= Len(base)
    /\ SubSeq(s, 1, Len(base)) = base

(***************************************************************************)
(* C1: when a run over a non-empty batch is over, every offer priced       *)
(* strictly below the threshold has had exactly one notification sent for  *)
(* it, naming its origin, destination and price.  Stated for the offers    *)
(* that carry every field, so that the notification can be composed.       *)
(***************************************************************************)
C1_OneNotificationPerDeal ==
    (RunOver /\ flights # <<>>) =>
        \A i \in 1..Len(flights) :
            (WellFormed(flights[i]) /\ IsDeal(flights[i])) =>
                /\ SendsFor(i) = 1
                /\ \A k \in 1..Len(attempts) :
                      attempts[k].offer = i =>
                          Mentions(attempts[k].mail, flights[i])

(***************************************************************************)
(* C2: no notification is ever sent for an offer priced at or above the    *)
(* threshold (400 itself included), and a batch without any offer under    *)
(* the threshold produces no message at all.                               *)
(***************************************************************************)
C2_NoNotificationAtOrAboveThreshold ==
    /\ \A k \in 1..Len(attempts) :
          LET flight == flights[attempts[k].offer]
          IN  ~(flight.price >= 400)
    /\ (\A i \in 1..Len(flights) : ~IsDeal(flights[i])) => attempts = <<>>

C2_Witness ==
    /\ step = "done"
    /\ Len(attempts) = 1
    /\ \E i \in 1..Len(flights) : flights[i].price = 400
    /\ \E i \in 1..Len(flights) : flights[i].price = 350

(***************************************************************************)
(* C3: starting from an empty sheet or one whose first row is the header,  *)
(* after every Recorder invocation the first row is the canonical header   *)
(* and the header occurs exactly once in the sheet.                        *)
(***************************************************************************)
C3_HeaderAfterEveryRecorderCall ==
    LET startsClean == sheet0 = <<>> \/ sheet0[1] = Header
        recorderCalled == saveCalls > 0 /\ step # "save"
    IN  (startsClean /\ recorderCalled) =>
            /\ sheet # <<>>
            /\ sheet[1] = Header
            /\ HeaderCount(sheet) = 1

(***************************************************************************)
(* C4: a malformed offer does not abort the batch: when the run is over,   *)
(* every well-formed offer that follows a malformed one has its row in the *)
(* sheet if its destination is preferred, and has had its notification     *)
(* sent if it is a deal.                                                   *)
(***************************************************************************)
C4_MalformedOfferSkipped ==
    (RunOver /\ saveCalls > 0) =>
        \A i, j \in 1..Len(flights) :
            (i < j /\ ~WellFormed(flights[i]) /\ WellFormed(flights[j])) =>
                /\ flights[j].route[1].cityTo \in preferred_destinations
                      => \E k \in 1..Len(appended) : appended[k] = j
                /\ IsDeal(flights[j]) => Attempted(j)

(***************************************************************************)
(* C5: a failed HTTP call never raises out of fetch_flight_data and yields *)
(* the empty list; in that run the Recorder, the formatter and the         *)
(* Notifier are not called, the sheet is as it was and no mail is sent.    *)
(***************************************************************************)
C5_FetchFailureIsEmptyRun ==
    fetchFailed =>
        /\ flights = <<>>
        /\ step \in {"return", "done"}
        /\ pc # "crashed"
        /\ saveCalls = 0
        /\ formatCalls = 0
        /\ attempts = <<>>
        /\ sheet = sheetBefore

C5_Witness == fetchFailed /\ step = "done" /\ sheet = <<>>

(***************************************************************************)
(* C6: a response with zero offers leads to no write and no send: the      *)
(* sheet after the run equals the sheet before it, header included, and    *)
(* no message is sent.                                                     *)
(***************************************************************************)
C6_ZeroOffersNoEffect ==
    (~fetchFailed /\ FetchReturned /\ flights = <<>>) =>
        /\ sheet = sheetBefore
        /\ Len(attempts) = 0
        /\ saveCalls + formatCalls = 0

C6_Witness ==
    /\ ~fetchFailed /\ step = "done" /\ flights = <<>>
    /\ sheet = <<OldRow>>
    /\ invocations = 2

(***************************************************************************)
(* C7: a failed send does not abort the batch: when the run is over, every *)
(* well-formed deal that follows an offer whose send failed has had its    *)
(* own send attempted, and the attempts are in list order.                 *)
(***************************************************************************)
C7_FailedSendDoesNotAbort ==
    RunOver =>
        /\ \A k \in 1..Len(attempts) :
              ~attempts[k].sent =>
                  \A j \in (attempts[k].offer + 1)..Len(flights) :
                      (WellFormed(flights[j]) /\ IsDeal(flights[j]))
                          => Attempted(j)
        /\ \A k, l \in 1..Len(attempts) :
              k < l => attempts[k].offer < attempts[l].offer

(***************************************************************************)
(* C8: for a batch of well-formed offers the Recorder appends, after the   *)
(* rows already there (and the header), exactly the rows of the offers     *)
(* whose destination is a preferred city, in fetch order, whatever their   *)
(* price.                                                                  *)
(***************************************************************************)
C8_OneRowPerPreferredOffer ==
    (RecorderReturned /\ \A i \in 1..Len(flights) : WellFormed(flights[i])) =>
        LET wanted ==
                SelectSeq(flights,
                          LAMBDA f : f.route[1].cityTo \in
                                     {"Palermo", "Catania", "Rome", "Milan"})
            base == WithHeader(sheetBefore)
        IN  sheet = base \o [k \in 1..Len(wanted) |-> ExpectedRow(wanted[k])]

C8_Witness ==
    /\ step = "done"
    /\ flights = <<Offer(400, "Rome"), Offer(350, "Paris"), Offer(350, "Rome")>>
    /\ sheet = <<Header, ExpectedRow(Offer(400, "Rome")),
                 ExpectedRow(Offer(350, "Rome"))>>

(***************************************************************************)
(* C9: the scheduler is Idle -> Running -> Idle with no concurrent runs.   *)
(* At most one invocation is executing; an invocation starts only from an  *)
(* idle process with none executing, in the loop only when the job is due; *)
(* in debug mode the first step is the one invocation, whatever the        *)
(* schedule says, and when it is over the process has ended; a process     *)
(* that has ended does nothing more.                                       *)
(***************************************************************************)
C9_SchedulerSerializes ==
    [][ /\ active' \in {0, 1}
        /\ (active' = 1) <=> (pc' = "running")
        /\ invocations' # invocations =>
              /\ invocations' = invocations + 1
              /\ active = 0
              /\ pc' = "running"
              /\ \/ debug /\ pc = "main"
                 \/ ~debug /\ pc = "idle" /\ due
        /\ (pc # "running" /\ pc' = "running") => invocations' # invocations
        /\ (pc = "running" /\ pc' # "running") =>
              pc' \in (IF debug THEN {"exit", "crashed"}
                       ELSE {"idle", "crashed"})
        /\ (pc = "main" /\ pc' # "main") =>
              pc' = (IF debug THEN "running" ELSE "idle")
        /\ debug => invocations' <= 1
        /\ (debug /\ pc' \in {"exit", "crashed"}) => invocations' = 1
        /\ pc \in {"exit", "crashed"} => pc' = pc
      ]_vars

C9_Witness ==
    /\ ~debug /\ pc = "running" /\ invocations = 2 /\ active = 1
    /\ step = "notify"

(***************************************************************************)
(* C10: the spreadsheet is append-only: a step leaves the rows that were   *)
(* there in place and in order, adding rows only after the last one, save  *)
(* for the header inserted as row 1, above rows that are all kept, when    *)
(* the sheet is empty or its first row is not the header.                  *)
(***************************************************************************)
C10_AppendOnly ==
    [][ \/ Extends(sheet', sheet)
        \/ /\ sheet = <<>> \/ sheet[1] # Header
           /\ Extends(sheet', <<Header>> \o sheet)
      ]_vars

C10_Witness ==
    /\ sheet0 = <<OldRow>>
    /\ invocations = 2
    /\ Len(sheet) = 4
    /\ sheet[1] = Header
    /\ sheet[2] = OldRow
    /\ step = "done"

=============================================================================
